---- MODULE Spec2Model ----
(***************************************************************************)
(* Model of the API service of marvel-tech-test: the cached, paginated     *)
(* character listing (server/index.js, server/marvel.js, server/cache.js)  *)
(* and the spreadsheet upload (server/index.js, server/db.js).             *)
(*                                                                         *)
(* Text is modelled as a sequence of tokens; a token is either the space   *)
(* character " " or a fragment that holds no space.  Time is in seconds.   *)
(***************************************************************************)
EXTENDS Integers, Sequences, FiniteSets, TLC

\* ---------------------------------------------------------------- bounds
MaxReqs  == 2      \* requests received by the service in one run
MaxTicks == 2      \* clock advances in one run
TickStep == 400    \* seconds by which the clock advances at a time
MaxFetches == 3    \* fetches the Gallery View issues in one run

\* ------------------------------------------------------ program constants
stdTTL == 600      \* new NodeCache({ stdTTL: 600 })
limit  == 50       \* const limit = 50

Reqs == 1..MaxReqs

\* ------------------------------------------------------------ query input
\* req.query.page as express hands it over: absent, a numeric text, or a
\* text that is not a number.
RawPages ==
  { [kind |-> "absent", n |-> 0], [kind |-> "text", n |-> 0] }
  \cup { [kind |-> "num", n |-> i] : i \in {-1, 0, 1, 2} }

\* Unary plus: the number for a numeric text, NaN otherwise.
ToNumber_parseInt(raw) ==
  IF raw.kind = "num" THEN [nan |-> FALSE, n |-> raw.n]
  ELSE IF raw.kind = "text" THEN [nan |-> FALSE, n |-> 2]
  ELSE [nan |-> TRUE, n |-> 0]
ToNumber(raw) ==
  IF raw.kind = "num" THEN [nan |-> FALSE, n |-> raw.n]
                      ELSE [nan |-> TRUE,  n |-> 0]

\* const page = +req.query.page || 1;   (NaN and 0 are falsy)
PageOf_clamped(raw) ==
  LET v == ToNumber(raw) IN IF v.nan \/ v.n < 1 THEN 1 ELSE v.n
PageOf(raw) ==
  LET v == ToNumber(raw) IN IF v.nan \/ v.n = 0 THEN 1 ELSE v.n

Pages == { PageOf(raw) : raw \in RawPages }

\* The page parameters a client sends while paging forward: "1", "2".
ListedPages == { raw \in RawPages : raw.kind = "num" /\ raw.n >= 1 }

\* const key = `chars:${page}`;
KeyOf_oneKey(page) == <<"chars:", 1>>
KeyOf(page) == <<"chars:", page>>

Keys == { KeyOf(p) : p \in Pages }

\* ---------------------------------------------------------- signed request
PublicKey  == <<"pub">>
PrivateKey == <<"priv">>

\* crypto.createHash("md5").update(s).digest("hex"), kept symbolic.
MD5(s) == <<"md5">> \o s

\* url(path, extra) of server/marvel.js at clock value ts.
url_keysSwapped(path, extra, ts) ==
  [ base   |-> "https://gateway.marvel.com/v1/public",
    path   |-> path,
    ts     |-> ts,
    apikey |-> PublicKey,
    hash   |-> MD5(<<ts>> \o PublicKey \o PrivateKey),
    offset |-> extra.offset,
    limit  |-> extra.limit ]
url(path, extra, ts) ==
  [ base   |-> "https://gateway.marvel.com/v1/public",
    path   |-> path,
    ts     |-> ts,
    apikey |-> PublicKey,
    hash   |-> MD5(<<ts>> \o PrivateKey \o PublicKey),
    offset |-> extra.offset,
    limit  |-> extra.limit ]

\* { offset: (page - 1) * limit, limit }
ExtraOf_pageTimesLimit(page) == [offset |-> page * limit, limit |-> limit]
ExtraOf(page) == [offset |-> (page - 1) * limit, limit |-> limit]

\* ---------------------------------------------------------- upstream data
NoThumb == [present |-> FALSE, path |-> <<>>, extension |-> <<>>]
Thumb(p, e) == [present |-> TRUE, path |-> p, extension |-> e]

ChSpace == [id |-> 1, name |-> "3-D Man",
            thumbnail |-> Thumb(<<"http://example.com/pic", " ", "1">>, <<"jpg">>)]
ChPlain == [id |-> 2, name |-> "A-Bomb",
            thumbnail |-> Thumb(<<"http://example.com/b">>, <<"png">>)]
ChNoThumb == [id |-> 3, name |-> "Aaron", thumbnail |-> NoThumb]

\* data.data.results of the upstream bodies the model feeds in.
GoodResults == { <<>>, <<ChPlain, ChSpace>> }
BadResults  == { <<ChPlain, ChNoThumb>> }

\* What `await axios.get(u)` yields: a fulfilled 2xx response (with or
\* without the data.data.results envelope) or a rejection (non-2xx status
\* with or without a body, or no response at all).
AxiosOutcomes ==
  { [resolved |-> TRUE, status |-> 200, envelope |-> TRUE, results |-> rs,
     errData |-> "", message |-> ""] : rs \in GoodResults \cup BadResults }
  \cup
  { [resolved |-> TRUE, status |-> 200, envelope |-> FALSE, results |-> <<>>,
     errData |-> "", message |-> ""],
    [resolved |-> FALSE, status |-> 401, envelope |-> FALSE, results |-> <<>>,
     errData |-> "InvalidCredentials",
     message |-> "Request failed with status code 401"],
    [resolved |-> FALSE, status |-> 500, envelope |-> FALSE, results |-> <<>>,
     errData |-> "", message |-> "Request failed with status code 500"],
    [resolved |-> FALSE, status |-> 0, envelope |-> FALSE, results |-> <<>>,
     errData |-> "", message |-> "Network Error"] }

\* .replace(/ /g, '')
RemoveSpaces(s) == SelectSeq(s, LAMBDA t : t # " ")

\* `${ch.thumbnail.path}/standard_medium.${ch.thumbnail.extension}`
\*    .replace(/ /g, '')
ThumbnailOf_keepSpaces(ch) ==
  ch.thumbnail.path \o <<"/standard_medium.">> \o ch.thumbnail.extension
ThumbnailOf(ch) ==
  RemoveSpaces(ch.thumbnail.path \o <<"/standard_medium.">> \o ch.thumbnail.extension)

\* One element of data.data.results.map(...)
MapCharacter(ch) ==
  [id |-> ch.id, name |-> ch.name, thumbnail |-> ThumbnailOf(ch)]

\* data.data.results.map(...): throws a TypeError when the envelope is
\* missing or a record has no thumbnail object.
MapThrows(out) ==
  \/ ~out.envelope
  \/ \E i \in 1..Len(out.results) : ~out.results[i].thumbnail.present

PayloadOf(out) == [i \in 1..Len(out.results) |-> MapCharacter(out.results[i])]

\* ------------------------------------------------------------------ cache
\* A NodeCache entry: the value and the instant t after which it is expired.
NoEntry == [present |-> FALSE, v |-> <<>>, t |-> 0]

\* NodeCache _check: an entry is expired once its t lies before the clock.
Expired(e, clock) == e.present /\ e.t < clock

\* cache.has(key)
CacheHas(c, k, clock) == c[k].present /\ ~Expired(c[k], clock)

\* cache.get(key): the stored value, or absent
Absent == [present |-> FALSE, v |-> <<>>]
CacheGet(c, k, clock) ==
  IF CacheHas(c, k, clock) THEN [present |-> TRUE, v |-> c[k].v] ELSE Absent

\* State of the cache after has/get looked at key k: an expired entry is
\* dropped, a live one is left as it is (its t is not touched).
CacheAfterRead_purgeAll(c, k, clock) ==
  [kk \in DOMAIN c |-> IF Expired(c[kk], clock) THEN NoEntry ELSE c[kk]]
CacheAfterRead_refresh(c, k, clock) ==
  IF Expired(c[k], clock) THEN [c EXCEPT ![k] = NoEntry]
  ELSE IF c[k].present THEN [c EXCEPT ![k].t = clock + stdTTL] ELSE c
CacheAfterRead(c, k, clock) ==
  IF Expired(c[k], clock) THEN [c EXCEPT ![k] = NoEntry] ELSE c

\* cache.set(key, value): overwrite, expiry restarted from the clock.
CacheSet_ttlAsMillis(c, k, val, clock) ==
  [c EXCEPT ![k] = [present |-> TRUE, v |-> val, t |-> clock + (stdTTL \div 1000)]]
CacheSet_keepOld(c, k, val, clock) ==
  IF c[k].present THEN [c EXCEPT ![k].t = clock + stdTTL]
  ELSE [c EXCEPT ![k] = [present |-> TRUE, v |-> val, t |-> clock + stdTTL]]
CacheSet(c, k, val, clock) ==
  [c EXCEPT ![k] = [present |-> TRUE, v |-> val, t |-> clock + stdTTL]]

\* -------------------------------------------------------------- spreadsheet
\* A value that may be undefined.
Undefined == [def |-> FALSE, s |-> ""]
Text(t)   == [def |-> TRUE, s |-> t]

\* First sheets of the workbooks the model uploads: the header row and the
\* data rows, a blank cell being Undefined.
SheetABC ==
  [ headers |-> {"A", "B", "C"},
    rows |-> << [A |-> Text("x"), B |-> Text("y"), C |-> Text("z")],
                [A |-> Undefined, B |-> Text("q"), C |-> Undefined],
                [A |-> Text("u"), B |-> Text("v"), C |-> Text("w")] >> ]
SheetNoRows == [ headers |-> {"A", "B", "C"}, rows |-> <<>> ]
SheetAB ==
  [ headers |-> {"A", "B"},
    rows |-> << [A |-> Text("x"), B |-> Text("y")] >> ]

\* The file multer hands to the handler: none (req.file undefined), one
\* that xlsx.readFile cannot read or parse, or a workbook.
SheetNamed(name) ==
  CASE name = "abc.xlsx" -> SheetABC
    [] name = "ab.xlsx"  -> SheetAB
    [] OTHER             -> SheetNoRows

Files ==
  { [kind |-> "nofile", name |-> ""],
    [kind |-> "unreadable", name |-> "notes.txt"],
    [kind |-> "workbook", name |-> "abc.xlsx"],
    [kind |-> "workbook", name |-> "ab.xlsx"],
    [kind |-> "workbook", name |-> "norows.xlsx"] }

\* xlsx.utils.sheet_to_json(sheet, { defval: "" }): one record per data
\* row, keyed by the headers, a blank cell replaced by defval.
SheetToJson(sheet, defval) ==
  [ i \in 1..Len(sheet.rows) |->
      [ h \in sheet.headers |->
          IF sheet.rows[i][h].def THEN sheet.rows[i][h] ELSE defval ] ]

\* r.A, r.B, r.C: property access, undefined for a key the record lacks.
Prop(rec, name) == IF name \in DOMAIN rec THEN rec[name] ELSE Undefined

\* json.map((r) => ({ col_a: r.A, col_b: r.B, col_c: r.C }))
MapRows(json) ==
  [ i \in 1..Len(json) |->
      [ col_a |-> Prop(json[i], "A"),
        col_b |-> Prop(json[i], "B"),
        col_c |-> Prop(json[i], "C") ] ]

\* --------------------------------------------------------------- database
\* upload_rows with its AUTOINCREMENT counter (sqlite_sequence).
EmptyDb == [rows |-> <<>>, seq |-> 0]

\* stmt.run(r.col_a, r.col_b, r.col_c) rejects an undefined binding.
BindThrows(r) == ~r.col_a.def \/ ~r.col_b.def \/ ~r.col_c.def

StmtRun_prepend(d, r) ==
  [ rows |-> << [id |-> d.seq + 1, col_a |-> r.col_a.s,
                 col_b |-> r.col_b.s, col_c |-> r.col_c.s] >> \o d.rows,
    seq  |-> d.seq + 1 ]
StmtRun_sameSeq(d, r) ==
  [ rows |-> Append(d.rows, [id |-> d.seq + 1, col_a |-> r.col_a.s,
                             col_b |-> r.col_b.s, col_c |-> r.col_c.s]),
    seq  |-> d.seq ]
StmtRun(d, r) ==
  [ rows |-> Append(d.rows, [id |-> d.seq + 1, col_a |-> r.col_a.s,
                             col_b |-> r.col_b.s, col_c |-> r.col_c.s]),
    seq  |-> d.seq + 1 ]

\* for (const r of data) stmt.run(...), from row i on.  failAt is the row
\* at which the database engine reports an error (0: at none).
RECURSIVE InsertMany(_, _, _, _)
InsertMany(d, data, i, failAt) ==
  IF i > Len(data) THEN [db |-> d, threw |-> FALSE, message |-> ""]
  ELSE IF i = failAt THEN [db |-> d, threw |-> TRUE, message |-> "disk I/O error"]
  ELSE IF BindThrows(data[i])
    THEN [db |-> d, threw |-> TRUE, message |-> "SQLite3 can only bind numbers, strings, bigints, buffers, and null"]
  ELSE InsertMany(StmtRun(d, data[i]), data, i + 1, failAt)

\* db.transaction(fn)(rows): BEGIN, fn, COMMIT; on a throw (failAt =
\* Len(data) + 1 is a failing COMMIT) ROLLBACK and rethrow.
Transaction_noRollback(d, data, failAt) ==
  LET r == InsertMany(d, data, 1, failAt) IN
  IF r.threw THEN r
  ELSE IF failAt = Len(data) + 1
    THEN [db |-> r.db, threw |-> TRUE, message |-> "disk I/O error"]
  ELSE r
Transaction(d, data, failAt) ==
  LET r == InsertMany(d, data, 1, failAt) IN
  IF r.threw THEN [db |-> d, threw |-> TRUE, message |-> r.message]
  ELSE IF failAt = Len(data) + 1
    THEN [db |-> d, threw |-> TRUE, message |-> "disk I/O error"]
  ELSE r

\* bulkInsert(rows) of server/db.js
bulkInsert(d, rows, failAt) == Transaction(d, rows, failAt)

\* -------------------------------------------------------------- responses
\* What a handler sends: the status and the JSON body, which is an array of
\* characters, { inserted }, or { error }.
JsonArray(arr) ==
  [status |-> 200, body |-> "array", payload |-> arr, inserted |-> 0, error |-> ""]
JsonInserted(n) ==
  [status |-> 200, body |-> "inserted", payload |-> <<>>, inserted |-> n, error |-> ""]
JsonError(st, err) ==
  [status |-> st, body |-> "error", payload |-> <<>>, inserted |-> 0, error |-> err]
\* res.json(undefined): status 200 and no body
JsonNothing ==
  [status |-> 200, body |-> "none", payload |-> <<>>, inserted |-> 0, error |-> ""]

NoCall == <<>>

\* ------------------------------------------------- GET /api/characters
\* The handler up to its first suspension (lines 20-29): the cache lookup
\* and, on a miss, the upstream call it issues.  res is what it sends, call
\* the outbound requests it makes, cache the cache it leaves behind.
CharactersBegin_noLookup(c, raw, clock) ==
  LET page == PageOf(raw)
      key  == KeyOf(page)
  IN  [ pc |-> "awaiting", hit |-> FALSE, page |-> page, key |-> key,
        res |-> <<>>,
        call |-> << url("/characters", ExtraOf(page), clock) >>,
        cache |-> CacheAfterRead(c, key, clock) ]
CharactersBegin(c, raw, clock) ==
  LET page == PageOf(raw)
      key  == KeyOf(page)
      got  == CacheGet(c, key, clock)
  IN  IF CacheHas(c, key, clock)
      THEN [ pc |-> "done", hit |-> TRUE, page |-> page, key |-> key,
             res |-> << IF got.present THEN JsonArray(got.v) ELSE JsonNothing >>,
             call |-> NoCall,
             cache |-> CacheAfterRead(c, key, clock) ]
      ELSE [ pc |-> "awaiting", hit |-> FALSE, page |-> page, key |-> key,
             res |-> <<>>,
             call |-> << url("/characters", ExtraOf(page), clock) >>,
             cache |-> CacheAfterRead(c, key, clock) ]

\* The error the try block throws for an outcome of the awaited call: the
\* rejection of axios, or the TypeError of the mapping.
ThrownBy(out) ==
  IF ~out.resolved
  THEN [hasResponse |-> out.status # 0, data |-> out.errData, message |-> out.message]
  ELSE [hasResponse |-> FALSE, data |-> "",
        message |-> "Cannot read properties of undefined"]

\* catch (e) { res.status(500).json({ error: e.response?.data || e.message }) }
CharactersCatch_cacheError(c, key, e, clock) ==
  [ res |-> << JsonError(500, IF e.hasResponse /\ e.data # "" THEN e.data ELSE e.message) >>,
    cache |-> CacheSet(c, key, <<>>, clock), wrote |-> TRUE, crashed |-> FALSE ]
CharactersCatch_rethrow(c, key, e, clock) ==
  [ res |-> <<>>, cache |-> c, wrote |-> FALSE, crashed |-> TRUE ]
CharactersCatch(c, key, e, clock) ==
  [ res |-> << JsonError(500, IF e.hasResponse /\ e.data # "" THEN e.data ELSE e.message) >>,
    cache |-> c, wrote |-> FALSE, crashed |-> FALSE ]

\* The handler from the resumption of `await axios.get(u)` to its end
\* (lines 29-49), for the outcome out of the call.
CharactersResume_keepFirst(c, key, out, clock) ==
  IF out.resolved /\ ~MapThrows(out)
  THEN [ res |-> << JsonArray(PayloadOf(out)) >>,
         cache |-> IF CacheHas(c, key, clock) THEN c
                   ELSE CacheSet(c, key, PayloadOf(out), clock),
         wrote |-> TRUE, crashed |-> FALSE ]
  ELSE CharactersCatch(c, key, ThrownBy(out), clock)
CharactersResume(c, key, out, clock) ==
  IF out.resolved /\ ~MapThrows(out)
  THEN [ res |-> << JsonArray(PayloadOf(out)) >>,
         cache |-> CacheSet(c, key, PayloadOf(out), clock),
         wrote |-> TRUE, crashed |-> FALSE ]
  ELSE CharactersCatch(c, key, ThrownBy(out), clock)

\* ---------------------------------------------------- POST /api/upload
\* The whole handler (lines 53-62); it has no suspension point.
UploadHandler_countFirst(d, file, failAt) ==
  IF file.kind = "nofile"
    THEN [res |-> << JsonError(500, "Cannot read properties of undefined") >>, db |-> d]
  ELSE IF file.kind = "unreadable"
    THEN [res |-> << JsonError(500, "File is not a spreadsheet") >>, db |-> d]
  ELSE
    LET json == SheetToJson(SheetNamed(file.name), Text(""))
        rows == MapRows(json)
        tx   == bulkInsert(d, rows, failAt)
    IN  [res |-> << JsonInserted(Len(rows)) >>, db |-> tx.db]
UploadHandler_totalCount(d, file, failAt) ==
  IF file.kind = "nofile"
    THEN [res |-> << JsonError(500, "Cannot read properties of undefined") >>, db |-> d]
  ELSE IF file.kind = "unreadable"
    THEN [res |-> << JsonError(500, "File is not a spreadsheet") >>, db |-> d]
  ELSE
    LET json == SheetToJson(SheetNamed(file.name), Text(""))
        rows == MapRows(json)
        tx   == bulkInsert(d, rows, failAt)
    IN  IF tx.threw
        THEN [res |-> << JsonError(500, tx.message) >>, db |-> tx.db]
        ELSE [res |-> << JsonInserted(Len(tx.db.rows)) >>, db |-> tx.db]
UploadHandler(d, file, failAt) ==
  IF file.kind = "nofile"
    \* req.file is undefined: req.file.path throws a TypeError
    THEN [res |-> << JsonError(500, "Cannot read properties of undefined") >>, db |-> d]
  ELSE IF file.kind = "unreadable"
    \* xlsx.readFile throws
    THEN [res |-> << JsonError(500, "File is not a spreadsheet") >>, db |-> d]
  ELSE
    LET json == SheetToJson(SheetNamed(file.name), Text(""))
        rows == MapRows(json)
        tx   == bulkInsert(d, rows, failAt)
    IN  IF tx.threw
        THEN [res |-> << JsonError(500, tx.message) >>, db |-> tx.db]
        ELSE [res |-> << JsonInserted(Len(rows)) >>, db |-> tx.db]

\* ------------------------------------------------------------------ state
VARIABLES
  now,      \* the clock (Date.now()), in seconds
  cache,    \* the NodeCache instance: key -> entry
  db,       \* the database: upload_rows and its AUTOINCREMENT counter
  alive,    \* the server process is running
  nreq,     \* requests received so far; request r is the r-th received
  pc,       \* per request: "new", "awaiting" (suspended at await), "done"
  req,      \* per request: the operation, its input, the page and key computed
  sent,     \* per request: the responses sent, in order
  calls,    \* per request: the upstream calls issued, in order
  lastSet,  \* per key: the last cache.set (value, instant, request)
  msg,      \* Upload View: the status message
  posting,  \* Upload View: the requests whose response onSubmit awaits
  view,     \* Gallery View: "init", "mounted", or "crashed" (unmounted
            \* by an error thrown while rendering)
  viewPage, \* Gallery View: the page state
  chars,    \* Gallery View: the chars state
  shown,    \* Gallery View: what the last render put on the page
  fetches,  \* Gallery View: the fetches in flight
  nfetch,   \* Gallery View: fetches issued so far
  lastResolved \* Gallery View: the response that resolved last

serverVars == <<now, cache, db, alive, nreq, pc, req, sent, calls, lastSet>>
uploadViewVars == <<msg, posting>>
galleryVars == <<view, viewPage, chars, shown, fetches, nfetch, lastResolved>>
vars == <<serverVars, uploadViewVars, galleryVars>>

\* ------------------------------------------------------------ Upload View
\* A value of the msg state: a string, the template `Inserted ${n} rows`,
\* or undefined.
MsgText(t)     == [def |-> TRUE, tmpl |-> "text", n |-> 0, text |-> t]
MsgInserted(n) == [def |-> TRUE, tmpl |-> "inserted", n |-> n, text |-> ""]
MsgUndefined   == [def |-> FALSE, tmpl |-> "text", n |-> 0, text |-> ""]

\* j.inserted of a parsed body j: undefined when the body has no such field.
InsertedOf(j) ==
  IF j.body = "inserted" THEN [def |-> TRUE, n |-> j.inserted]
  ELSE [def |-> FALSE, n |-> 0]

\* j.error of a parsed body j.
ErrorOf(j) == IF j.body = "error" THEN MsgText(j.error) ELSE MsgUndefined

\* The truth value JavaScript gives j.inserted: undefined and 0 are false.
Truthy(x) == x.def /\ x.n # 0

\* j.inserted ? `Inserted ${j.inserted} rows` : j.error
StatusMessage(j) ==
  IF Truthy(InsertedOf(j)) THEN MsgInserted(InsertedOf(j).n) ELSE ErrorOf(j)

\* ----------------------------------------------------------- Gallery View
\* A value of the chars state: the parsed body of a response (an array, or
\* an object that is not one) and the page of the fetch that brought it
\* (0 for the initial []).
CharsList(list, from) == [isList |-> TRUE, list |-> list, error |-> "", from |-> from]
CharsObject(err, from) == [isList |-> FALSE, list |-> <<>>, error |-> err, from |-> from]

\* r.json() of an answer of the API Service, as handed to setChars.
BodyOf(ans, from) ==
  IF ans.body = "array" THEN CharsList(ans.payload, from)
  ELSE CharsObject(ans.error, from)

\* The answers GET /api/characters sends: an array of characters, or a 500
\* with an error body.
ApiAnswers ==
  { CharactersResume([k \in Keys |-> NoEntry], KeyOf(1), out, 0).res[1] :
      out \in AxiosOutcomes }

\* What a render puts on the page: the cards and the two buttons.  Nothing
\* is on the page before the first render and after React has unmounted
\* the tree.
Blank ==
  [present |-> FALSE, cards |-> <<>>, prevDisabled |-> FALSE, nextDisabled |-> FALSE]

\* chars.map is not a function unless chars is an array.
RenderThrows(c) == ~c.isList

\* The JSX App returns for the states chars = c and page = p.
Render_prevNeverDisabled(c, p) ==
  [ present |-> TRUE,
    cards |-> [i \in 1..Len(c.list) |->
                 [key |-> c.list[i].id, src |-> c.list[i].thumbnail,
                  alt |-> c.list[i].name, h3 |-> c.list[i].name]],
    prevDisabled |-> FALSE,
    nextDisabled |-> FALSE ]
Render(c, p) ==
  [ present |-> TRUE,
    cards |-> [i \in 1..Len(c.list) |->
                 [key |-> c.list[i].id, src |-> c.list[i].thumbnail,
                  alt |-> c.list[i].name, h3 |-> c.list[i].name]],
    prevDisabled |-> (p = 1),
    nextDisabled |-> FALSE ]

\* fetch(`.../api/characters?page=${p}`), the n-th fetch of the view.
FetchOf(n, p) == [id |-> n, path |-> "/api/characters", page |-> p]

NoResponse == [present |-> FALSE, page |-> 0, body |-> JsonNothing]

NoSet == [present |-> FALSE, v |-> <<>>, at |-> 0, by |-> 0]
NoFile == [kind |-> "none", name |-> ""]
NoRaw == [kind |-> "none", n |-> 0]
NoReq ==
  [ op |-> "none", raw |-> NoRaw, page |-> 0, key |-> KeyOf(0),
    file |-> NoFile, failAt |-> 0 ]

Init ==
  /\ now = 0
  /\ cache = [k \in Keys |-> NoEntry]
  /\ db = EmptyDb
  /\ alive = TRUE
  /\ nreq = 0
  /\ pc = [r \in Reqs |-> "new"]
  /\ req = [r \in Reqs |-> NoReq]
  /\ sent = [r \in Reqs |-> <<>>]
  /\ calls = [r \in Reqs |-> <<>>]
  /\ lastSet = [k \in Keys |-> NoSet]
  /\ msg = MsgText("")
  /\ posting = {}
  /\ view = "init"
  /\ viewPage = 1
  /\ chars = CharsList(<<>>, 0)
  /\ shown = Blank
  /\ fetches = {}
  /\ nfetch = 0
  /\ lastResolved = NoResponse

\* Time passes.
Tick ==
  /\ now < MaxTicks * TickStep
  /\ now' = now + TickStep
  /\ UNCHANGED <<cache, db, alive, nreq, pc, req, sent, calls, lastSet>>
  /\ UNCHANGED <<uploadViewVars, galleryVars>>

\* A GET /api/characters request arrives and its handler runs up to the
\* response (cache hit) or to the await (miss).
CharactersRequest(raw) ==
  /\ alive
  /\ nreq < MaxReqs
  /\ LET r == nreq + 1
         b == CharactersBegin(cache, raw, now)
     IN  /\ nreq' = r
         /\ pc' = [pc EXCEPT ![r] = b.pc]
         /\ req' = [req EXCEPT ![r] =
                      [NoReq EXCEPT !.op = "characters", !.raw = raw,
                                    !.page = b.page, !.key = b.key]]
         /\ sent' = [sent EXCEPT ![r] = b.res]
         /\ calls' = [calls EXCEPT ![r] = b.call]
         /\ cache' = b.cache
  /\ UNCHANGED <<now, db, alive, lastSet>>
  /\ UNCHANGED <<uploadViewVars, galleryVars>>

\* The rest of the handler of request r once its upstream call has settled
\* with outcome out.
CharactersSettle(r, out) ==
  /\ alive
  /\ pc[r] = "awaiting"
  /\ LET s == CharactersResume(cache, req[r].key, out, now)
     IN  /\ pc' = [pc EXCEPT ![r] = "done"]
         /\ sent' = [sent EXCEPT ![r] = sent[r] \o s.res]
         /\ cache' = s.cache
         /\ alive' = ~s.crashed
         /\ lastSet' = IF s.wrote
                       THEN [lastSet EXCEPT ![req[r].key] =
                               [present |-> TRUE, v |-> s.cache[req[r].key].v,
                                at |-> now, by |-> r]]
                       ELSE lastSet
  /\ UNCHANGED <<now, db, nreq, req, calls>>
  /\ UNCHANGED <<uploadViewVars, galleryVars>>

\* axios.get fulfils: a 2xx response arrived.
CharactersFulfilled(r, out) == out.resolved /\ CharactersSettle(r, out)

\* axios.get rejects: a non-2xx status, or no response.
CharactersRejected(r, out) == ~out.resolved /\ CharactersSettle(r, out)

\* A POST /api/upload request arrives with the file multer stored; the
\* handler runs to its response.  failAt is where the database fails.
UploadArrives(file, failAt) ==
  /\ alive
  /\ nreq < MaxReqs
  /\ LET r == nreq + 1
         u == UploadHandler(db, file, failAt)
     IN  /\ nreq' = r
         /\ pc' = [pc EXCEPT ![r] = "done"]
         /\ req' = [req EXCEPT ![r] =
                      [NoReq EXCEPT !.op = "upload", !.file = file,
                                    !.failAt = failAt]]
         /\ sent' = [sent EXCEPT ![r] = u.res]
         /\ db' = u.db
  /\ UNCHANGED <<now, cache, alive, calls, lastSet>>
  /\ UNCHANGED galleryVars

\* The request comes from a client other than the Upload View.
Upload(file, failAt) ==
  /\ UploadArrives(file, failAt)
  /\ UNCHANGED uploadViewVars

\* Where the database may fail while file is uploaded: nowhere (0), at a
\* row, or at COMMIT.
FailPoints(file) ==
  IF file.kind = "workbook" THEN 0..(Len(SheetNamed(file.name).rows) + 1) ELSE {0}

Next ==
  \/ Tick
  \/ \E raw \in ListedPages : CharactersRequest(raw)
  \/ \E r \in Reqs, out \in AxiosOutcomes : CharactersFulfilled(r, out)
  \/ \E r \in Reqs, out \in AxiosOutcomes : CharactersRejected(r, out)
  \/ \E file \in Files : \E failAt \in FailPoints(file) : Upload(file, failAt)

Spec == Init /\ [][Next]_vars

\* The character listing alone, for well-formed page parameters.
NextChars ==
  \/ Tick
  \/ \E raw \in ListedPages : CharactersRequest(raw)
  \/ \E r \in Reqs, out \in AxiosOutcomes : CharactersFulfilled(r, out)
  \/ \E r \in Reqs, out \in AxiosOutcomes : CharactersRejected(r, out)

SpecChars == Init /\ [][NextChars]_vars

\* The character listing for every shape of the page parameter, at one
\* instant of the clock.
NextPages ==
  \/ \E raw \in RawPages : CharactersRequest(raw)
  \/ \E r \in Reqs, out \in AxiosOutcomes : CharactersFulfilled(r, out)
  \/ \E r \in Reqs, out \in AxiosOutcomes : CharactersRejected(r, out)

SpecPages == Init /\ [][NextPages]_vars

\* The upload alone.
NextUpload ==
  \E file \in Files : \E failAt \in FailPoints(file) : Upload(file, failAt)

SpecUpload == Init /\ [][NextUpload]_vars

\* ------------------------------------------------- Upload View: actions
\* The files the form can submit: its file input is required.
ViewFiles == { f \in Files : f.kind # "nofile" }

\* onSubmit up to `await fetch(...)`: the form is posted, the service
\* handles the request, the view waits for the response.
UploadViewSubmit(file, failAt) ==
  /\ UploadArrives(file, failAt)
  /\ posting' = posting \cup {nreq + 1}
  /\ UNCHANGED msg

\* onSubmit from the response on: the body is parsed and the message set.
UploadViewResponse(r) ==
  /\ r \in posting
  /\ posting' = posting \ {r}
  /\ msg' = StatusMessage(sent[r][1])
  /\ UNCHANGED <<serverVars, galleryVars>>

\* The response never comes: `await fetch(...)` throws out of onSubmit.
UploadViewNoResponse(r) ==
  /\ r \in posting
  /\ posting' = posting \ {r}
  /\ UNCHANGED <<msg, serverVars, galleryVars>>

NextUploadView ==
  \/ \E file \in ViewFiles : \E failAt \in FailPoints(file) :
       UploadViewSubmit(file, failAt)
  \/ \E r \in Reqs : UploadViewResponse(r)
  \/ \E r \in Reqs : UploadViewNoResponse(r)

SpecUploadView == Init /\ [][NextUploadView]_vars

\* ------------------------------------------------ Gallery View: actions
\* The effect of useEffect(..., [page]) for the page p: one fetch.
PageEffect(p) ==
  /\ nfetch' = nfetch + 1
  /\ fetches' = fetches \cup { FetchOf(nfetch + 1, p) }

\* First render of App and its effect.
GalleryMount ==
  /\ view = "init"
  /\ view' = "mounted"
  /\ shown' = Render(chars, viewPage)
  /\ PageEffect(viewPage)
  /\ UNCHANGED <<viewPage, chars, lastResolved, serverVars, uploadViewVars>>

\* A click on Prev: setPage(p => p - 1), the render, the effect.
ClickPrev_whileDisabled ==
  /\ view = "mounted"
  /\ nfetch < MaxFetches
  /\ viewPage' = viewPage - 1
  /\ shown' = Render(chars, viewPage')
  /\ PageEffect(viewPage')
  /\ UNCHANGED <<view, chars, lastResolved, serverVars, uploadViewVars>>
ClickPrev ==
  /\ view = "mounted"
  /\ ~shown.prevDisabled
  /\ nfetch < MaxFetches
  /\ viewPage' = viewPage - 1
  /\ shown' = Render(chars, viewPage')
  /\ PageEffect(viewPage')
  /\ UNCHANGED <<view, chars, lastResolved, serverVars, uploadViewVars>>

\* A click on Next: setPage(p => p + 1), the render, the effect.
ClickNext ==
  /\ view = "mounted"
  /\ ~shown.nextDisabled
  /\ nfetch < MaxFetches
  /\ viewPage' = viewPage + 1
  /\ shown' = Render(chars, viewPage')
  /\ PageEffect(viewPage')
  /\ UNCHANGED <<view, chars, lastResolved, serverVars, uploadViewVars>>

\* The fetch f resolves with the answer ans: .then(r => r.json())
\* .then(setChars), and the render that follows.  A render that throws
\* makes React unmount the tree; setChars on an unmounted App does nothing.
FetchResolved(f, ans) ==
  /\ f \in fetches
  /\ fetches' = fetches \ {f}
  /\ lastResolved' = [present |-> TRUE, page |-> f.page, body |-> ans]
  /\ IF view = "mounted"
     THEN /\ chars' = BodyOf(ans, f.page)
          /\ IF RenderThrows(chars')
             THEN view' = "crashed" /\ shown' = Blank
             ELSE view' = view /\ shown' = Render(chars', viewPage)
     ELSE UNCHANGED <<view, chars, shown>>
  /\ UNCHANGED <<viewPage, nfetch, serverVars, uploadViewVars>>

\* The fetch f rejects (no response): the chain has no .catch().
FetchRejected(f) ==
  /\ f \in fetches
  /\ fetches' = fetches \ {f}
  /\ UNCHANGED <<view, viewPage, chars, shown, nfetch, lastResolved>>
  /\ UNCHANGED <<serverVars, uploadViewVars>>

NextGallery ==
  \/ GalleryMount
  \/ ClickPrev
  \/ ClickNext
  \/ \E f \in fetches : \E ans \in ApiAnswers : FetchResolved(f, ans)
  \/ \E f \in fetches : FetchRejected(f)

SpecGallery == Init /\ [][NextGallery]_vars

\* ------------------------------------------------------------ properties
CharReqs   == { r \in 1..nreq : req[r].op = "characters" }
UploadReqs == { r \in 1..nreq : req[r].op = "upload" }

\* Request r was answered from the cache.
IsHit(r) == r \in CharReqs /\ pc[r] = "done" /\ calls[r] = <<>>

\* The awaited upstream call with outcome out failed, as seen by the
\* handler: rejected, or a body the mapping cannot walk.
UpstreamFailed(out) ==
  \/ ~out.resolved
  \/ ~out.envelope
  \/ \E i \in 1..Len(out.results) : ~out.results[i].thumbnail.present

\* C1: a request for page p that finds an unexpired entry under chars:p is
\* answered 200 with exactly the stored value, issues no upstream call and
\* writes nothing to the cache.
C1_CacheHit ==
  [][ \A raw \in RawPages :
        LET k == KeyOf(PageOf(raw))
            r == nreq + 1
        IN  (nreq' = r /\ cache[k].present /\ cache[k].t >= now
               /\ CharactersRequest(raw))
            => /\ sent'[r] = << JsonArray(cache[k].v) >>
               /\ calls'[r] = <<>>
               /\ pc'[r] = "done"
               /\ cache' = cache
               /\ lastSet' = lastSet ]_vars

C1_Witness ==
  \E r \in CharReqs :
    /\ IsHit(r)
    /\ cache[req[r].key].present
    /\ sent[r] = << JsonArray(cache[req[r].key].v) >>
    /\ Len(sent[r][1].payload) > 0

\* C2: a request for p arriving less than 600 s after the last successful
\* request for p wrote the cache issues no upstream call, so that the two
\* requests issued exactly one call in total; a request arriving more than
\* 600 s after that write issues a new upstream call.
C2_OneCallPerWindow ==
  [][ \A raw \in RawPages :
        LET k  == KeyOf(PageOf(raw))
            ls == lastSet[k]
            r  == nreq + 1
        IN  (nreq' = r /\ ls.present /\ CharactersRequest(raw))
            => /\ pc[ls.by] = "done"
               /\ now < ls.at + 600
                    => /\ calls'[r] = <<>>
                       /\ Len(calls[ls.by]) + Len(calls'[r]) = 1
                       /\ sent'[r] = << JsonArray(ls.v) >>
               /\ now > ls.at + 600
                    => /\ Len(calls'[r]) = 1
                       /\ calls'[r][1].ts = now
                       /\ pc'[r] = "awaiting" ]_vars

C2_Witness ==
  \E r1, r2 \in CharReqs :
    /\ r1 < r2
    /\ req[r1].key = req[r2].key
    /\ lastSet[req[r1].key].by = r1
    /\ Len(calls[r1]) = 1
    /\ calls[r1][1].ts < now
    /\ IsHit(r2)
    /\ sent[r2] = sent[r1]

\* A second witness of C2's other half: a request that arrived after the
\* entry written by an earlier request had expired called upstream again.
C2_WitnessExpired ==
  \E r1, r2 \in CharReqs :
    /\ r1 < r2
    /\ req[r1].key = req[r2].key
    /\ lastSet[req[r1].key].present
    /\ lastSet[req[r1].key].by = r1
    /\ Len(calls[r2]) = 1
    /\ calls[r2][1].ts > lastSet[req[r1].key].at + 600

\* C3: there is no de-duplication per key and the last writer wins: a
\* request that finds no unexpired entry issues its own upstream call even
\* while another request for the same page is awaiting its call, and every
\* handler whose call succeeds stores its own payload over whatever entry
\* the page has at that moment.
C3_LastWriterWins ==
  [][ /\ \A raw \in RawPages :
           LET k == KeyOf(PageOf(raw))
               r == nreq + 1
           IN  (nreq' = r /\ ~(cache[k].present /\ cache[k].t >= now)
                  /\ CharactersRequest(raw))
               => Len(calls'[r]) = 1 /\ pc'[r] = "awaiting"
      /\ \A r \in Reqs : \A out \in AxiosOutcomes :
           (pc[r] = "awaiting" /\ pc'[r] = "done" /\ ~UpstreamFailed(out)
            /\ CharactersFulfilled(r, out))
           => /\ cache'[req[r].key].present
              /\ cache'[req[r].key].v = sent'[r][1].payload
              /\ cache'[req[r].key].t = now + 600
              /\ lastSet'[req[r].key].by = r ]_vars

\* Both requests missed, both called upstream, both wrote; the entry holds
\* the payload of the one that wrote last (here the one that arrived first).
C3_Witness ==
  \E r1, r2 \in CharReqs :
    /\ r1 < r2
    /\ req[r1].key = req[r2].key
    /\ Len(calls[r1]) = 1 /\ Len(calls[r2]) = 1
    /\ pc[r1] = "done" /\ pc[r2] = "done"
    /\ sent[r1][1].status = 200 /\ sent[r2][1].status = 200
    /\ sent[r1][1].payload # sent[r2][1].payload
    /\ lastSet[req[r1].key].by = r1
    /\ cache[req[r1].key].v = sent[r1][1].payload

\* C4: when the upstream call of a request fails, the request is answered
\* 500 with a JSON body that has an error field, the cache is left exactly
\* as it was, and the request has made its only upstream call.
C4_FailureLeavesCache ==
  [][ \A r \in Reqs : \A out \in AxiosOutcomes :
        (pc[r] = "awaiting" /\ pc'[r] = "done" /\ UpstreamFailed(out)
         /\ CharactersSettle(r, out))
        => /\ Len(sent'[r]) = 1
           /\ sent'[r][1].status = 500
           /\ sent'[r][1].body = "error"
           /\ sent'[r][1].error # ""
           /\ cache' = cache
           /\ lastSet' = lastSet
           /\ calls' = calls
           /\ Len(calls[r]) = 1
           /\ pc'[r] = "done" ]_vars

\* A failed request for a page whose entry, written earlier, is still there.
C4_Witness ==
  \E r \in CharReqs :
    /\ pc[r] = "done"
    /\ Len(calls[r]) = 1
    /\ sent[r][1].status = 500
    /\ cache[req[r].key].present
    /\ lastSet[req[r].key].by # r

\* C5: after set(k, v) at time t, has(k) is true and get(k) returns v at
\* every time before t + 600; has(k) is false and get(k) is absent at every
\* time after t + 600 unless k was set again.  Reads do not move the expiry:
\* only the last set counts, however often the entry was read since.
C5_CacheExpiry ==
  \A k \in Keys :
    lastSet[k].present =>
      /\ now < lastSet[k].at + 600
           => /\ CacheHas(cache, k, now)
              /\ CacheGet(cache, k, now) = [present |-> TRUE, v |-> lastSet[k].v]
      /\ now > lastSet[k].at + 600
           => /\ ~CacheHas(cache, k, now)
              /\ CacheGet(cache, k, now) = Absent

\* An entry that was read (a request was served from it) and whose 600 s
\* have since run out.
C5_Witness ==
  \E r \in CharReqs :
    /\ IsHit(r)
    /\ lastSet[req[r].key].present
    /\ lastSet[req[r].key].by # r
    /\ now > lastSet[req[r].key].at + 600
    /\ ~CacheHas(cache, req[r].key, now)

\* The rows the handler maps from the first sheet of an uploaded workbook.
RowsOf(file) == MapRows(SheetToJson(SheetNamed(file.name), Text("")))

\* tbl is base followed by one row per element of rows, in order, with
\* consecutive identifiers.
Appended(tbl, base, rows) ==
  /\ Len(tbl.rows) = Len(base.rows) + Len(rows)
  /\ SubSeq(tbl.rows, 1, Len(base.rows)) = base.rows
  /\ \A i \in 1..Len(rows) :
       LET row == tbl.rows[Len(base.rows) + i]
       IN  /\ row.id = base.seq + i
           /\ row.col_a = rows[i].col_a.s
           /\ row.col_b = rows[i].col_b.s
           /\ row.col_c = rows[i].col_c.s

\* Inserting some row of rows fails: the engine reports an error at a row,
\* or a row carries a value that cannot be bound.
SomeRowFails(rows, failAt) ==
  \/ failAt \in 1..Len(rows)
  \/ \E i \in 1..Len(rows) : ~rows[i].col_a.def \/ ~rows[i].col_b.def \/ ~rows[i].col_c.def

\* C6: a call bulkInsert(rows) either commits every row of rows, or, when
\* inserting any row fails, commits none (the table is as before the call)
\* and the error reaches the caller.
C6_AllOrNothing ==
  [][ \A file \in Files : \A failAt \in FailPoints(file) :
        (Upload(file, failAt) /\ file.kind = "workbook")
        => LET rows == RowsOf(file)
               r    == nreq + 1
           IN  /\ Appended(db', db, rows) \/ db'.rows = db.rows
               /\ SomeRowFails(rows, failAt)
                    => /\ db'.rows = db.rows
                       /\ sent'[r] = << JsonError(500, sent'[r][1].error) >>
                       /\ sent'[r][1].error # "" ]_vars

\* A failure on the second of three rows, after an earlier upload had
\* committed its rows: the row count is the one before the call.
C6_Witness ==
  \E r1, r2 \in UploadReqs :
    /\ r1 < r2
    /\ sent[r1][1].status = 200
    /\ req[r2].file.name = "abc.xlsx"
    /\ req[r2].failAt = 2
    /\ sent[r2][1].status = 500
    /\ Len(db.rows) = sent[r1][1].inserted
    /\ Len(db.rows) > 0

\* C7: when POST /api/upload answers 200, the body is { inserted: N } with
\* N the number of row records parsed from the first sheet, and exactly
\* those N rows have been committed by the request when it answers.
C7_UploadSuccess ==
  [][ \A file \in Files : \A failAt \in FailPoints(file) :
        LET r == nreq + 1
        IN  (Upload(file, failAt) /\ sent'[r][1].status = 200)
            => /\ file.kind = "workbook"
               /\ sent'[r] = << JsonInserted(Len(SheetNamed(file.name).rows)) >>
               /\ Appended(db', db, RowsOf(file)) ]_vars

\* A second successful upload: it reports its own three rows, the table
\* holds six.
C7_Witness ==
  \E r1, r2 \in UploadReqs :
    /\ r1 < r2
    /\ sent[r1][1].status = 200 /\ sent[r1][1].inserted = 3
    /\ sent[r2][1].status = 200 /\ sent[r2][1].inserted = 3
    /\ Len(db.rows) = 6

\* Processing of the upload fails: no file, an unreadable file, or a
\* database error during bulkInsert.
UploadFails(file, failAt) ==
  \/ file.kind = "nofile"
  \/ file.kind = "unreadable"
  \/ file.kind = "workbook" /\ (failAt # 0 \/ SomeRowFails(RowsOf(file), failAt))

\* C8: when processing of an upload fails, the answer is 500 with
\* { error: <message> }, no inserted count is reported, and upload_rows
\* holds exactly the rows it held before the request.
C8_UploadFailure ==
  [][ \A file \in Files : \A failAt \in FailPoints(file) :
        LET r == nreq + 1
        IN  (Upload(file, failAt) /\ UploadFails(file, failAt))
            => /\ Len(sent'[r]) = 1
               /\ sent'[r][1].status = 500
               /\ sent'[r][1].body = "error"
               /\ sent'[r][1].error # ""
               /\ db' = db ]_vars

\* A database error at COMMIT after an earlier upload had committed rows.
C8_Witness ==
  \E r1, r2 \in UploadReqs :
    /\ r1 < r2
    /\ sent[r1][1].status = 200 /\ sent[r1][1].inserted > 0
    /\ req[r2].file.kind = "workbook"
    /\ req[r2].failAt = Len(SheetNamed(req[r2].file.name).rows) + 1
    /\ sent[r2][1].status = 500
    /\ Len(db.rows) = sent[r1][1].inserted

\* C9: every request whose handler ran to its end got exactly one response,
\* with status 200 or 500; a handler suspended at its await has sent none
\* yet; and the process is still running, whatever failed.
C9_OneAnswer ==
  /\ alive
  /\ \A r \in Reqs :
       /\ pc[r] = "done" => Len(sent[r]) = 1 /\ sent[r][1].status \in {200, 500}
       /\ pc[r] # "done" => sent[r] = <<>>
       /\ r <= nreq <=> pc[r] # "new"

\* A request handled after another one had failed.
C9_Witness ==
  \E r1, r2 \in 1..nreq :
    /\ r1 < r2
    /\ req[r1].op # req[r2].op
    /\ pc[r1] = "done" /\ sent[r1][1].status = 500
    /\ pc[r2] = "done" /\ sent[r2][1].status = 200

\* C10: a request that misses the cache with page value p issues a single
\* upstream call, for the characters listing, with offset (p - 1) * 50 and
\* limit 50.
C10_Pagination ==
  \A r \in CharReqs :
    /\ Len(calls[r]) <= 1
    /\ ~IsHit(r) => Len(calls[r]) = 1
    /\ \A i \in 1..Len(calls[r]) :
         /\ calls[r][i].path = "/characters"
         /\ calls[r][i].offset = (req[r].page - 1) * 50
         /\ calls[r][i].limit = 50

C10_Witness ==
  \E r \in CharReqs :
    /\ req[r].page = 2
    /\ Len(calls[r]) = 1
    /\ calls[r][1].offset = 50
    /\ calls[r][1].limit = 50

\* C11 as stated: every numeric page parameter p <= 0, p = 0 included, is
\* used as it is: the key is chars:p and the offset is (p - 1) * 50.
C11_AsStated ==
  \A r \in CharReqs :
    (req[r].raw.kind = "num" /\ req[r].raw.n <= 0)
    => /\ req[r].page = req[r].raw.n
       /\ req[r].key = KeyOf(req[r].raw.n)
       /\ \A i \in 1..Len(calls[r]) : calls[r][i].offset = (req[r].raw.n - 1) * 50

\* C11 as amended: every numeric page parameter p < 0 is used as it is (key
\* chars:p, offset (p - 1) * 50, a negative value passed to upstream
\* unchanged); p = 0 is falsy and is replaced by 1 (key chars:1, offset 0).
C11_NonPositivePages ==
  \A r \in CharReqs :
    /\ (req[r].raw.kind = "num" /\ req[r].raw.n < 0)
       => /\ req[r].page = req[r].raw.n
          /\ req[r].key = KeyOf(req[r].raw.n)
          /\ \A i \in 1..Len(calls[r]) :
               /\ calls[r][i].offset = (req[r].raw.n - 1) * 50
               /\ calls[r][i].offset < 0
    /\ (req[r].raw.kind = "num" /\ req[r].raw.n = 0)
       => /\ req[r].page = 1
          /\ req[r].key = KeyOf(1)
          /\ \A i \in 1..Len(calls[r]) : calls[r][i].offset = 0

\* A request for page -1 whose call went out with offset -100, and a
\* request for page 0 that went out as page 1.
C11_Witness ==
  \E r1, r2 \in CharReqs :
    /\ req[r1].raw = [kind |-> "num", n |-> -1]
    /\ Len(calls[r1]) = 1
    /\ calls[r1][1].offset = -100
    /\ req[r2].raw = [kind |-> "num", n |-> 0]
    /\ Len(calls[r2]) = 1
    /\ calls[r2][1].offset = 0

\* The page parameter is absent or is not a number.
NoNumber(raw) == raw.kind \in {"absent", "text"}

PageOne == [kind |-> "num", n |-> 1]

\* C12: a request whose page parameter is absent or not a number behaves
\* exactly like a request for page 1: same key chars:1, same offset 0, same
\* response, calls and cache effect as page=1 would have in that state (so
\* it is served from the entry a page=1 request populated), and it is
\* answered 500 only when its own upstream call failed.
C12_DefaultPage ==
  [][ \A raw \in RawPages :
        LET r  == nreq + 1
            b1 == CharactersBegin(cache, PageOne, now)
        IN  (nreq' = r /\ NoNumber(raw) /\ CharactersRequest(raw))
            => /\ req'[r].page = 1
               /\ req'[r].key = KeyOf(1)
               /\ sent'[r] = b1.res
               /\ calls'[r] = b1.call
               /\ cache' = b1.cache
               /\ pc'[r] = b1.pc
               /\ \A i \in 1..Len(calls'[r]) : calls'[r][i].offset = 0
               /\ \A i \in 1..Len(sent'[r]) : sent'[r][i].status = 200 ]_vars

\* A request without a usable page parameter served from the entry that a
\* page=1 request had written.
C12_Witness ==
  \E r1, r2 \in CharReqs :
    /\ r1 < r2
    /\ req[r1].raw = PageOne
    /\ lastSet[KeyOf(1)].by = r1
    /\ NoNumber(req[r2].raw)
    /\ IsHit(r2)
    /\ sent[r2] = sent[r1]
    /\ Len(sent[r2][1].payload) > 0

\* The text of column h in data row i of a sheet, empty text when the cell
\* or the whole column is missing.
CellText(sheet, i, h) ==
  IF h \in sheet.headers /\ sheet.rows[i][h].def THEN sheet.rows[i][h] ELSE Text("")

\* C13: for every parsed row, the row handed to bulkInsert has col_a, col_b
\* and col_c equal to the text of columns A, B and C of that row, and equal
\* to empty text where the cell or the whole column is missing; no field is
\* undefined.
C13_NoAbsentValues ==
  \A r \in UploadReqs :
    req[r].file.kind = "workbook"
    => LET sheet == SheetNamed(req[r].file.name)
           rows  == RowsOf(req[r].file)
       IN  \A i \in 1..Len(rows) :
             /\ rows[i].col_a.def /\ rows[i].col_b.def /\ rows[i].col_c.def
             /\ rows[i].col_a = CellText(sheet, i, "A")
             /\ rows[i].col_b = CellText(sheet, i, "B")
             /\ rows[i].col_c = CellText(sheet, i, "C")

\* C14: when the Upload View receives the response to a submission, the
\* status message becomes "Inserted N rows" if the body carries an inserted
\* count N, whatever N is (0 included), and the error text of the body
\* otherwise.
C14_StatusMessage ==
  [][ \A r \in Reqs :
        (r \in posting /\ UploadViewResponse(r))
        => LET j == sent[r][1]
           IN  IF j.body = "inserted"
               THEN msg' = MsgInserted(j.inserted)
               ELSE msg' = MsgText(j.error) ]_vars

\* C15: a fetch of the Gallery View that fails, by rejecting or by
\* resolving with a 500 answer of the API Service, leaves the chars state
\* and what is displayed as they were.
C15_FailedFetchKeepsList ==
  [][ /\ \A f \in fetches :
           FetchRejected(f) => chars' = chars /\ shown' = shown
      /\ \A f \in fetches : \A ans \in ApiAnswers :
           (ans.status = 500 /\ FetchResolved(f, ans))
           => chars' = chars /\ shown' = shown ]_vars

\* C16: the chars state is the body of whichever response resolved last,
\* and when that body is an array its cards are what is displayed.
C16_LastResolvedShown ==
  lastResolved.present
  => /\ chars = BodyOf(lastResolved.body, lastResolved.page)
     /\ lastResolved.body.body = "array"
          => /\ shown.present
             /\ Len(shown.cards) = Len(lastResolved.body.payload)

\* C17: the mount and every change of the page to p issue exactly one
\* fetch, to /api/characters?page=p, and no other step issues a fetch; a
\* fetch that resolves with an array puts that array in the chars state and
\* as many cards on the page as the array has elements.
C17_FetchPerPageChange ==
  [][ /\ IF viewPage' # viewPage \/ (view = "init" /\ view' = "mounted")
         THEN /\ FetchOf(nfetch + 1, viewPage') \notin fetches
              /\ fetches' = fetches \cup { FetchOf(nfetch + 1, viewPage') }
         ELSE fetches' \subseteq fetches
      /\ \A f \in fetches : \A ans \in ApiAnswers :
           (ans.body = "array" /\ FetchResolved(f, ans))
           => /\ chars'.isList
              /\ chars'.list = ans.payload
              /\ shown'.present
              /\ Len(shown'.cards) = Len(ans.payload) ]_vars

\* C18: whenever the Gallery View is on the page, Prev is disabled exactly
\* when the page is 1 and Next is not disabled; the page changes only by
\* one step up, or by one step down from a page other than 1.
C18_PrevControl ==
  [][ /\ view' = "mounted"
           => /\ shown'.present
              /\ shown'.prevDisabled <=> (viewPage' = 1)
              /\ ~shown'.nextDisabled
      /\ viewPage' # viewPage
           => \/ viewPage' = viewPage + 1
              \/ viewPage' = viewPage - 1 /\ viewPage # 1 ]_vars

\* Next was clicked and then Prev: the view is back on page 1, where Prev
\* is disabled again, after Prev was enabled on page 2.
C18_Witness ==
  /\ view = "mounted"
  /\ nfetch = 3
  /\ viewPage = 1
  /\ shown.prevDisabled
  /\ ~shown.nextDisabled

\* a is an initial part of b.
IsPrefix(a, b) ==
  /\ Len(a) <= Len(b)
  /\ \A i \in 1..Len(a) : b[i] = a[i]

UniqueIds(rows) ==
  \A i, j \in 1..Len(rows) : rows[i].id = rows[j].id => i = j

\* C19: no step of the system changes or removes a row of upload_rows:
\* the rows before a step are, unchanged and in place, the first rows after
\* it; and no two rows of the table have the same identifier.
C19_AppendOnly ==
  [][ /\ IsPrefix(db.rows, db'.rows)
      /\ UniqueIds(db'.rows) ]_vars

\* Two uploads were committed one after the other; the rows of the first
\* are still there under the rows of the second.
C19_Witness ==
  \E r1, r2 \in UploadReqs :
    /\ r1 < r2
    /\ sent[r1] = << JsonInserted(3) >>
    /\ sent[r2] = << JsonInserted(3) >>
    /\ Len(db.rows) = 6
    /\ db.rows[1].id # db.rows[4].id

\* C20: the cache has one entry for a key, and a get of the key returns
\* the value of the last set on that key (the payload of the request that
\* set it last), never the value of an earlier set.
C20_OneEntryPerKey ==
  /\ DOMAIN cache = Keys
  /\ \A k \in Keys :
       LET got == CacheGet(cache, k, now)
       IN  got.present
           => /\ lastSet[k].present
              /\ sent[lastSet[k].by] = << JsonArray(got.v) >>

\* Two requests for one page both wrote the entry, with different
\* payloads; the second arrival wrote last and a get returns its payload.
C20_Witness ==
  \E r1, r2 \in CharReqs :
    /\ r1 < r2
    /\ req[r1].key = req[r2].key
    /\ Len(calls[r1]) = 1 /\ Len(calls[r2]) = 1
    /\ pc[r1] = "done" /\ pc[r2] = "done"
    /\ sent[r1][1].status = 200 /\ sent[r2][1].status = 200
    /\ sent[r1][1].payload # sent[r2][1].payload
    /\ lastSet[req[r2].key].by = r2
    /\ CacheGet(cache, req[r2].key, now) =
         [present |-> TRUE, v |-> sent[r2][1].payload]

\* The text s without its space characters, taken character by character.
RECURSIVE Strip(_)
Strip(s) ==
  IF s = <<>> THEN <<>>
  ELSE IF Head(s) = " " THEN Strip(Tail(s))
  ELSE <<Head(s)>> \o Strip(Tail(s))

\* C21: when a handler maps a successful upstream response, the array it
\* sends has one Character per upstream record, in order, with the id and
\* the name of the record and with thumbnail equal to path +
\* "/standard_medium." + extension without its spaces; no thumbnail has a
\* space in it.
C21_Thumbnail ==
  [][ \A r \in Reqs : \A out \in AxiosOutcomes :
        (pc[r] = "awaiting" /\ pc'[r] = "done" /\ ~UpstreamFailed(out)
         /\ CharactersFulfilled(r, out))
        => LET arr == sent'[r][1].payload
           IN  /\ sent'[r][1].body = "array"
               /\ Len(arr) = Len(out.results)
               /\ \A i \in 1..Len(arr) :
                    LET ch == out.results[i]
                    IN  /\ arr[i].id = ch.id
                        /\ arr[i].name = ch.name
                        /\ arr[i].thumbnail =
                             Strip(ch.thumbnail.path \o <<"/standard_medium.">>
                                   \o ch.thumbnail.extension)
                        /\ \A j \in 1..Len(arr[i].thumbnail) :
                             arr[i].thumbnail[j] # " " ]_vars

\* A request was answered with the record whose path is
\* "http://example.com/pic 1": its thumbnail came back without the space.
C21_Witness ==
  \E r \in CharReqs :
    /\ pc[r] = "done"
    /\ Len(calls[r]) = 1
    /\ sent[r][1].body = "array"
    /\ \E i \in 1..Len(sent[r][1].payload) :
         /\ sent[r][1].payload[i].id = ChSpace.id
         /\ sent[r][1].payload[i].name = "3-D Man"
         /\ sent[r][1].payload[i].thumbnail =
              <<"http://example.com/pic", "1", "/standard_medium.", "jpg">>

\* C22: every URL the service has built carries the clock value ts it was
\* built at, the public key as apikey, the MD5 of ts + private key + public
\* key as hash, and the offset and limit it was given; two URLs built at
\* the same clock value for the same path and parameters are identical.
C22_UrlDeterministic ==
  /\ \A r \in CharReqs : \A i \in 1..Len(calls[r]) :
       LET u == calls[r][i]
       IN  /\ u.base = "https://gateway.marvel.com/v1/public"
           /\ u.path = "/characters"
           /\ u.ts <= now
           /\ u.apikey = <<"pub">>
           /\ u.hash = <<"md5", u.ts, "priv", "pub">>
           /\ u.offset = (req[r].page - 1) * 50
           /\ u.limit = 50
  /\ \A r1, r2 \in CharReqs :
       \A i \in 1..Len(calls[r1]) : \A j \in 1..Len(calls[r2]) :
         (/\ calls[r1][i].ts = calls[r2][j].ts
          /\ calls[r1][i].path = calls[r2][j].path
          /\ calls[r1][i].offset = calls[r2][j].offset
          /\ calls[r1][i].limit = calls[r2][j].limit)
         => calls[r1][i] = calls[r2][j]

\* Two requests for page 2 both built their URL at the same clock value,
\* after the clock had advanced: the two URLs are the same.
C22_Witness ==
  \E r1, r2 \in CharReqs :
    /\ r1 < r2
    /\ req[r1].page = 2 /\ req[r2].page = 2
    /\ Len(calls[r1]) = 1 /\ Len(calls[r2]) = 1
    /\ calls[r1][1].ts > 0
    /\ calls[r1][1] = calls[r2][1]
    /\ calls[r1][1].hash = MD5(<<now>> \o PrivateKey \o PublicKey)

\* The arrays the mapping makes of the successful upstream responses.
MappedArrays ==
  { PayloadOf(out) : out \in { o \in AxiosOutcomes : ~UpstreamFailed(o) } }

\* C23: every entry of the cache, under the key of a page p, was stored by
\* a request for page p whose one upstream call asked for offset
\* (p - 1) * 50 and limit 50 and succeeded; the entry is the mapped array
\* that request sent with status 200, never an error body.
C23_CacheContents ==
  \A p \in Pages :
    LET k == <<"chars:", p>>
    IN  (k \in DOMAIN cache /\ cache[k].present)
        => /\ lastSet[k].present
           /\ LET w == lastSet[k].by
              IN  /\ w \in CharReqs
                  /\ req[w].page = p
                  /\ Len(calls[w]) = 1
                  /\ calls[w][1].path = "/characters"
                  /\ calls[w][1].offset = (p - 1) * 50
                  /\ calls[w][1].limit = 50
                  /\ sent[w] = << JsonArray(cache[k].v) >>
                  /\ cache[k].v \in MappedArrays

\* The entries of pages 1 and 2 are both there, with different arrays,
\* each fetched with the offset of its own page.
C23_Witness ==
  /\ cache[<<"chars:", 1>>].present
  /\ cache[<<"chars:", 2>>].present
  /\ cache[<<"chars:", 1>>].v # cache[<<"chars:", 2>>].v
  /\ calls[lastSet[<<"chars:", 1>>].by][1].offset = 0
  /\ calls[lastSet[<<"chars:", 2>>].by][1].offset = 50

\* C24: the page of the Gallery View is an integer of at least 1, and so
\* is the page of every fetch the view has in flight and of the response
\* that resolved last.
C24_PagePositive ==
  /\ viewPage \in Nat /\ viewPage >= 1
  /\ \A f \in fetches : f.page \in Nat /\ f.page >= 1
  /\ lastResolved.present => lastResolved.page >= 1

\* The view went to page 2 and came back: its third fetch is for page 1,
\* still in flight, and Prev cannot be clicked.
C24_Witness ==
  /\ view = "mounted"
  /\ viewPage = 1
  /\ FetchOf(3, 1) \in fetches
  /\ FetchOf(2, 2) \in fetches
  /\ ~ENABLED ClickPrev

\* The number of rows request r committed: what it reported as inserted,
\* none when it is not an upload or was answered with an error.
Committed(r) ==
  IF r \in UploadReqs /\ pc[r] = "done" /\ sent[r][1].body = "inserted"
  THEN sent[r][1].inserted ELSE 0

\* The number of rows committed by the requests that arrived before r.
RECURSIVE CommittedBefore(_)
CommittedBefore(r) ==
  IF r <= 1 THEN 0 ELSE CommittedBefore(r - 1) + Committed(r - 1)

\* C25: the table is the blocks of the committed uploads one after the
\* other, in the order the requests were handled: the rows of an upload
\* are next to each other, in the row order of its sheet, with consecutive
\* identifiers, and all rows of an earlier upload come before them with
\* smaller identifiers.
C25_ContiguousBlocks ==
  /\ Len(db.rows) = CommittedBefore(nreq + 1)
  /\ \A r \in UploadReqs :
       Committed(r) > 0
       => LET base == CommittedBefore(r)
              rows == RowsOf(req[r].file)
          IN  /\ Len(rows) = Committed(r)
              /\ \A i \in 1..Committed(r) :
                   /\ db.rows[base + i].col_a = rows[i].col_a.s
                   /\ db.rows[base + i].col_b = rows[i].col_b.s
                   /\ db.rows[base + i].col_c = rows[i].col_c.s
                   /\ db.rows[base + i].id = db.rows[base + 1].id + (i - 1)
              /\ \A j \in 1..base : db.rows[j].id < db.rows[base + 1].id

\* Two uploads of the same sheet were committed: rows 4 to 6 repeat rows 1
\* to 3 in the same order, and the identifiers run on without a gap.
C25_Witness ==
  \E r1, r2 \in UploadReqs :
    /\ r1 < r2
    /\ Committed(r1) = 3 /\ Committed(r2) = 3
    /\ CommittedBefore(r2) = 3
    /\ \A i \in 1..3 : db.rows[3 + i].col_b = db.rows[i].col_b
    /\ db.rows[1].col_b # db.rows[2].col_b
    /\ db.rows[4].id = db.rows[3].id + 1

\* C26: a step of a List Characters request (its arrival, hit or miss, and
\* the end of its upstream call, success or failure) leaves the rows of
\* upload_rows and the cache entries of all other pages as they were; a
\* step of an Upload request, committed or failed, leaves the whole cache
\* as it was.
C26_DisjointState ==
  [][ /\ (nreq' = nreq + 1 /\ req'[nreq'].op = "characters")
           => /\ db' = db
              /\ \A k \in Keys \ {req'[nreq'].key} : cache'[k] = cache[k]
      /\ \A r \in Reqs :
           (pc[r] = "awaiting" /\ pc'[r] = "done")
           => /\ db' = db
              /\ \A k \in Keys \ {req[r].key} : cache'[k] = cache[k]
      /\ (nreq' = nreq + 1 /\ req'[nreq'].op = "upload")
           => cache' = cache /\ lastSet' = lastSet ]_vars

\* A listing request stored the entry of its page and an upload then
\* committed three rows: the entry is still what the listing request sent.
C26_Witness ==
  \E r1 \in CharReqs : \E r2 \in UploadReqs :
    /\ r1 < r2
    /\ lastSet[req[r1].key].by = r1
    /\ Len(sent[r1][1].payload) > 0
    /\ Committed(r2) = 3
    /\ Len(db.rows) = 3
    /\ cache[req[r1].key].present
    /\ sent[r1] = << JsonArray(cache[req[r1].key].v) >>

====
